---- MODULE Spec2Model ----
(***************************************************************************)
(* A model of torch_tvm/compiler.cpp: the type mapper, the constant        *)
(* translator, the graph translator (convertToRelay) and the execution     *)
(* engine TVMCompiler::run with its specialization cache.                  *)
(*                                                                         *)
(* Numbers.  TLC's integers are 32 bits wide, so a 64-bit integer of the   *)
(* program is a sequence of four 16-bit limbs, most significant first, in  *)
(* two's complement; an int32 is the two low limbs.  A double is           *)
(* <<class, m, e>>: class 0 is the finite value m * 2^e with |m| < 2^24,   *)
(* class 1 is +inf, class 2 is -inf, class 3 is NaN.                       *)
(***************************************************************************)
EXTENDS Integers, Sequences, FiniteSets, TLC

VARIABLES
  pure,        \* the pure functions' argument and result (SpecPure)
  subgraph_,   \* TVMCompiler::subgraph_
  strict_,     \* TVMCompiler::strict_
  cache_,      \* TVMCompiler::cache_: CompleteArgumentSpec -> entry
  run_mods,    \* the graph runtimes created so far, by handle
  stack,       \* the caller's Stack
  pc,          \* position of the current invocation of run
  loc,         \* locals of the current invocation of run
  tr,          \* locals of the current call of convertToRelay(subgraph)
  hist         \* the calls made to the external collaborators

vars == <<pure, subgraph_, strict_, cache_, run_mods, stack, pc, loc, tr, hist>>

\* ------------------------------------------------------------------ bounds

MaxListLen == 2
MaxCalls == 3

\* ----------------------------------------------------------------- helpers

Range(s) == {s[i] : i \in 1 .. Len(s)}

SeqsUpTo(S, n) == UNION {[1 .. k -> S] : k \in 0 .. n}

\* f with key k set to v (std::unordered_map::operator[] followed by =)
Put(f, k, v) == [x \in DOMAIN f \cup {k} |-> IF x = k THEN v ELSE f[x]]

\* ------------------------------------------------------ 64-bit integers

\* the value of the top limb as a signed number
SignedTop(l) == IF l >= 32768 THEN l - 65536 ELSE l

\* a <= b for two's complement numbers of the same number of limbs
RECURSIVE LexLeq(_, _)
LexLeq(a, b) ==
  IF a = <<>> THEN TRUE
  ELSE IF Head(a) # Head(b) THEN Head(a) < Head(b)
  ELSE LexLeq(Tail(a), Tail(b))

SignedLeq(a, b) ==
  IF SignedTop(a[1]) # SignedTop(b[1]) THEN SignedTop(a[1]) < SignedTop(b[1])
  ELSE LexLeq(Tail(a), Tail(b))

\* std::numeric_limits<int32_t>::max() and ::lowest(), promoted to int64_t
Int32Max == <<0, 0, 32767, 65535>>
Int32Lowest == <<65535, 65535, 32768, 0>>

\* int64_t -> int32_t: the low 32 bits
NarrowToInt32(l) == <<l[3], l[4]>>

\* --------------------------------------------------------------- doubles

RECURSIVE Pow2(_)
Pow2(k) == IF k = 0 THEN 1 ELSE 2 * Pow2(k - 1)

Abs(x) == IF x < 0 THEN -x ELSE x

\* m1 * 2^e1 <= m2 * 2^e2 for m1, m2 in 1 .. 2^24 - 1
PosLeq(m1, e1, m2, e2) ==
  IF e1 >= e2
    THEN IF e1 - e2 >= 24 THEN FALSE ELSE m1 <= m2 \div Pow2(e1 - e2)
    ELSE IF e2 - e1 >= 24 THEN TRUE
         ELSE (m1 + Pow2(e2 - e1) - 1) \div Pow2(e2 - e1) <= m2

\* a <= b for finite doubles <<0, m, e>>
FiniteLeq(a, b) ==
  IF a[2] <= 0 /\ b[2] >= 0 THEN TRUE
  ELSE IF a[2] >= 0 /\ b[2] <= 0 THEN FALSE
  ELSE IF a[2] > 0 THEN PosLeq(a[2], a[3], b[2], b[3])
  ELSE PosLeq(-b[2], b[3], -a[2], a[3])

\* a <= b as IEEE 754 compares: false when either side is NaN
DoubleLeq(a, b) ==
  IF a[1] = 3 \/ b[1] = 3 THEN FALSE
  ELSE IF a[1] = 2 \/ b[1] = 1 THEN TRUE
  ELSE IF a[1] = 1 \/ b[1] = 2 THEN FALSE
  ELSE FiniteLeq(a, b)

\* std::numeric_limits<float>::max() and ::lowest(), promoted to double
FloatMax == <<0, Pow2(24) - 1, 104>>
FloatLowest == <<0, 1 - Pow2(24), 104>>

\* static_cast<float>(d) for d within the float range: exact down to the
\* float's smallest subnormal step 2^-149, round-to-nearest-even below it
DoubleToFloat(d) ==
  IF d[1] # 0 \/ d[3] >= -149 THEN d
  ELSE LET k == -149 - d[3]
           a == Abs(d[2])
           q == IF k >= 25 THEN 0 ELSE a \div Pow2(k)
           r == IF k >= 25 THEN 1 ELSE 2 * (a % Pow2(k))
           h == IF k >= 25 THEN 2 ELSE Pow2(k)
           up == IF r > h \/ (r = h /\ q % 2 = 1) THEN q + 1 ELSE q
       IN  <<0, IF d[2] < 0 THEN -up ELSE up, IF up = 0 THEN 0 ELSE -149>>

\* ------------------------------------------------------- target-IR values

\* at::ScalarType
ScalarTypes ==
  {"Byte", "Char", "Short", "Int", "Long", "Half", "Float", "Double",
   "ComplexHalf", "ComplexFloat", "ComplexDouble", "Bool", "QInt8", "QUInt8",
   "QInt32", "BFloat16", "Undefined"}

\* tvm::relay::DataType: ::tvm::Float(b), ::tvm::Int(b), ::tvm::UInt(b);
\* ::tvm::Bool() is UInt(1)
DType(c, b) == [code |-> c, bits |-> b]
NoDType == DType("none", 0)

NoType == [sizes |-> <<>>, dtype |-> NoDType]

\* tvm::relay::Expr.  tag is var, const, call, tuple or proj; id is the
\* Value a var stands for or the node a call was made for; val is the
\* payload of a constant or the index of a projection.
MkExpr(t, i, a, v, ty) == [tag |-> t, id |-> i, args |-> a, val |-> v, ty |-> ty]
NoExpr == MkExpr("none", 0, <<>>, <<>>, NoType)

\* tvm::relay::ConstantNode::make(x), x a scalar NDArray::Empty({}, dtype)
ConstantNode(dtype, v) == MkExpr("const", 0, <<>>, v, [sizes |-> <<>>, dtype |-> dtype])
\* tvm::relay::TupleNode::make(elems)
TupleNode(elems) == MkExpr("tuple", 0, elems, <<>>, NoType)
\* tvm::relay::VarNode::make(name, TensorTypeNode::make(sizes, dtype)); the
\* name holds the Value's address, so it is unique per Value
VarNode(v, sizes, dtype) == MkExpr("var", v, <<>>, <<>>, [sizes |-> sizes, dtype |-> dtype])
\* a TupleGetItemNode with tuple t and index i
TupleGetItem(t, i) == MkExpr("proj", 0, <<t>>, <<i>>, NoType)

\* results of the translators: a value or a thrown exception
Ok(e) == [ok |-> TRUE, err |-> "", e |-> e, dt |-> NoDType]
OkType(dt) == [ok |-> TRUE, err |-> "", e |-> NoExpr, dt |-> dt]
Throw(err) == [ok |-> FALSE, err |-> err, e |-> NoExpr, dt |-> NoDType]
NoResult == [ok |-> FALSE, err |-> "not called", e |-> NoExpr, dt |-> NoDType]

\* ---------------------------------------------------------- type mapper

\* the static type_mapping table
type_mapping ==
  [t \in {"Float", "Double", "Int", "Long", "Bool", "Char", "Byte", "QInt8",
          "QUInt8", "QInt32"} |->
     CASE t = "Float" -> DType("float", 32)
       [] t = "Double" -> DType("float", 64)
       [] t = "Int" -> DType("int", 32)
       [] t = "Long" -> DType("int", 64)
       [] t = "Bool" -> DType("uint", 1)
       [] t = "Char" -> DType("int", 8)
       [] t = "Byte" -> DType("uint", 8)
       [] t = "QInt8" -> DType("int", 8)
       [] t = "QUInt8" -> DType("uint", 8)
       [] t = "QInt32" -> DType("int", 32)]

\* a type mapper whose table lost the QInt32 row
scalarTypeToTVMType_NoQInt32(pt_type) ==
  IF pt_type \in DOMAIN type_mapping \ {"QInt32"}
    THEN OkType(type_mapping[pt_type])
    ELSE Throw("UnsupportedTypeError")

scalarTypeToTVMType(pt_type) ==
  IF pt_type \in DOMAIN type_mapping
    THEN OkType(type_mapping[pt_type])
    ELSE Throw("UnsupportedTypeError")

\* ----------------------------------------------------------------- IValue

\* the number of elements of a tensor of the given sizes (the sizes of the
\* model are below 2^16: their lowest limb)
RECURSIVE NumElements(_)
NumElements(sizes) ==
  IF sizes = <<>> THEN 1 ELSE Head(sizes)[4] * NumElements(Tail(sizes))

\* the strides of a contiguous tensor of the given sizes
RECURSIVE ContiguousStrides(_)
ContiguousStrides(sizes) ==
  IF sizes = <<>> THEN <<>>
  ELSE <<<<0, 0, 0, NumElements(Tail(sizes))>>>> \o ContiguousStrides(Tail(sizes))

\* at::Tensor: a contiguous tensor on the CPU with its sizes, strides,
\* element type, an abstract content, and who made it; a tensor of element
\* type Undefined is the undefined tensor
Tensor(sizes, dtype, data, src) ==
  [sizes |-> sizes, strides |-> ContiguousStrides(sizes), device |-> "cpu",
   defined |-> dtype # "Undefined", dtype |-> dtype, data |-> data, src |-> src]

\* the sequence in reverse order
RECURSIVE Reverse(_)
Reverse(q) == IF q = <<>> THEN <<>> ELSE Append(Reverse(Tail(q)), Head(q))

\* tensor.t(): the transposed view, sizes and strides swapped
Transposed(t) ==
  [t EXCEPT !.sizes = Reverse(t.sizes), !.strides = Reverse(t.strides)]
NoTensor == Tensor(<<>>, "Undefined", 0, "none")

\* c10::IValue: kind is Tensor, Double, Int, Bool, None, IntList or String
\* (String stands for every kind convertToRelay does not handle)
IValue(k, num, list, ten) == [kind |-> k, num |-> num, list |-> list, ten |-> ten]
IInt(l) == IValue("Int", l, <<>>, NoTensor)
IDouble(d) == IValue("Double", d, <<>>, NoTensor)
IBool(b) == IValue("Bool", <<IF b THEN 1 ELSE 0>>, <<>>, NoTensor)
INone == IValue("None", <<>>, <<>>, NoTensor)
IIntList(l) == IValue("IntList", <<>>, l, NoTensor)
IString == IValue("String", <<>>, <<>>, NoTensor)
ITensor(t) == IValue("Tensor", <<>>, <<>>, t)

\* ---------------------------------------------------- constant translator

\* the int branch without its two range checks
IntConstant_Unchecked(l) == Ok(ConstantNode(DType("int", 32), NarrowToInt32(l)))

\* lines 73-82 and the loop body of lines 102-108: one int64 to an int32
\* constant
IntConstant(l) ==
  IF ~SignedLeq(l, Int32Max) THEN Throw("RangeError")
  ELSE IF ~SignedLeq(Int32Lowest, l) THEN Throw("RangeError")
  ELSE Ok(ConstantNode(DType("int", 32), NarrowToInt32(l)))

\* lines 100-110: the elements in order; the first failing element throws
RECURSIVE IntListElems(_)
IntListElems(l) ==
  IF l = <<>> THEN Ok(TupleNode(<<>>))
  ELSE LET h == IntConstant(Head(l)) IN
       IF ~h.ok THEN h
       ELSE LET t == IntListElems(Tail(l)) IN
            IF ~t.ok THEN t ELSE Ok(TupleNode(<<h.e>> \o t.e.args))

\* convertToRelay(const IValue&, TVMContext)
convertConstant(val) ==
  CASE val.kind = "Double" ->
         IF ~DoubleLeq(val.num, FloatMax) THEN Throw("RangeError")
         ELSE IF ~DoubleLeq(FloatLowest, val.num) THEN Throw("RangeError")
         ELSE Ok(ConstantNode(DType("float", 32), DoubleToFloat(val.num)))
    [] val.kind = "Int" -> IntConstant(val.num)
    [] val.kind = "Bool" -> Ok(ConstantNode(DType("uint", 1), val.num))
    \* the payload is getNoneSentinel(), which compiler.cpp does not define
    [] val.kind = "None" -> Ok(ConstantNode(DType("uint", 64), <<>>))
    [] val.kind = "IntList" -> IntListElems(val.list)
    [] OTHER -> Throw("UnsupportedConstantError")

\* ------------------------------------------------------------------ graphs

\* torch::jit::Node: its kind, its input Values and its output Values.
\* A Value is a number (its identity in the graph).
Node(k, ins, outs) == [kind |-> k, inputs |-> ins, outputs |-> outs]

\* torch::jit::Graph: the declared inputs, the nodes in topological order
\* with prim::Return last (its inputs are the declared outputs), and consts,
\* the outputs of the prim::Constant nodes with their values.
Graph(name, ins, nodes, consts) ==
  [name |-> name, inputs |-> ins, nodes |-> nodes, consts |-> consts]

\* subgraph->outputs()
Outputs(g) == g.nodes[Len(g.nodes)].inputs

\* value->uses(): one Use (user, offset) per input position that holds the
\* value, in the order the users were added to the graph
RECURSIVE UsesFrom(_, _, _, _)
UsesFrom(g, v, n, o) ==
  IF n > Len(g.nodes) THEN <<>>
  ELSE IF o > Len(g.nodes[n].inputs) THEN UsesFrom(g, v, n + 1, 1)
  ELSE (IF g.nodes[n].inputs[o] = v THEN <<[user |-> n, offset |-> o]>> ELSE <<>>)
       \o UsesFrom(g, v, n, o + 1)

Uses(g, v) == UsesFrom(g, v, 1, 1)

\* toIValue(value).has_value(): the value is the output of a prim::Constant
HasIValue(g, v) == v \in DOMAIN g.consts

I64(n) == <<0, 0, 0, n>>
Sizes2x2 == <<I64(2), I64(2)>>
Sizes3 == <<I64(3)>>
Weight == Tensor(Sizes3, "Float", 7, "const")
NoConsts == [v \in {} |-> INone]
Const1(v, c) == [x \in {v} |-> c]
Two40 == <<0, 256, 0, 0>>

GChain ==
  Graph("chain", <<1>>,
        <<Node("aten::relu", <<1>>, <<2>>), Node("aten::relu", <<2>>, <<3>>),
          Node("prim::Return", <<3, 2>>, <<>>)>>, NoConsts)
GAdd ==
  Graph("add", <<1, 2>>,
        <<Node("aten::add", <<1, 2>>, <<3>>), Node("prim::Return", <<3>>, <<>>)>>,
        NoConsts)
GSquare ==
  Graph("square", <<1>>,
        <<Node("aten::mul", <<1, 1>>, <<2>>), Node("prim::Return", <<2>>, <<>>)>>,
        NoConsts)
GLate ==
  Graph("late", <<1>>,
        <<Node("aten::relu", <<1>>, <<2>>), Node("aten::relu", <<2>>, <<3>>),
          Node("aten::add", <<1, 3>>, <<4>>), Node("prim::Return", <<4>>, <<>>)>>,
        NoConsts)
GSplit ==
  Graph("split", <<1>>,
        <<Node("aten::chunk", <<1>>, <<2, 3>>), Node("aten::add", <<2, 3>>, <<4>>),
          Node("prim::Return", <<4>>, <<>>)>>, NoConsts)
GUnsupported ==
  Graph("unsupported", <<1>>,
        <<Node("aten::relu", <<1>>, <<2>>), Node("aten::erf", <<2>>, <<3>>),
          Node("prim::Return", <<3>>, <<>>)>>, NoConsts)
GIntConst ==
  Graph("intconst", <<1>>,
        <<Node("aten::add", <<1, 2>>, <<3>>), Node("prim::Return", <<3>>, <<>>)>>,
        Const1(2, IInt(I64(42))))
GBigConst ==
  Graph("bigconst", <<1>>,
        <<Node("aten::add", <<1, 2>>, <<3>>), Node("prim::Return", <<3>>, <<>>)>>,
        Const1(2, IInt(Two40)))
GTensorConst ==
  Graph("tensorconst", <<1>>,
        <<Node("aten::add", <<1, 2>>, <<3>>), Node("prim::Return", <<3>>, <<>>)>>,
        Const1(2, ITensor(Weight)))
GPromoteSkip ==
  Graph("promoteskip", <<1>>,
        <<Node("aten::relu", <<1>>, <<3>>), Node("aten::relu", <<3>>, <<4>>),
          Node("aten::addmm", <<1, 2, 4>>, <<5>>),
          Node("prim::Return", <<5>>, <<>>)>>, Const1(2, ITensor(Weight)))
GConstOp ==
  Graph("constop", <<1>>,
        <<Node("aten::relu", <<2>>, <<3>>), Node("aten::add", <<1, 3>>, <<4>>),
          Node("prim::Return", <<4>>, <<>>)>>, Const1(2, ITensor(Weight)))
GNoInputs ==
  Graph("noinputs", <<>>,
        <<Node("aten::relu", <<1>>, <<2>>), Node("prim::Return", <<2>>, <<>>)>>,
        Const1(1, ITensor(Weight)))
GIdentity ==
  Graph("identity", <<1>>, <<Node("prim::Return", <<1>>, <<>>)>>, NoConsts)
GScalars ==
  Graph("scalars", <<1>>,
        <<Node("aten::sum", <<1, 2, 3, 4, 5>>, <<6>>),
          Node("prim::Return", <<6>>, <<>>)>>,
        [v \in 2 .. 5 |->
           CASE v = 2 -> IIntList(<<I64(1), I64(0)>>)
             [] v = 3 -> IDouble(<<0, 3, -1>>)
             [] v = 4 -> INone
             [] v = 5 -> IBool(TRUE)])
GString ==
  Graph("string", <<1>>,
        <<Node("aten::add", <<1, 2>>, <<3>>), Node("prim::Return", <<3>>, <<>>)>>,
        Const1(2, IString))
GHalfConst ==
  Graph("halfconst", <<1>>,
        <<Node("aten::add", <<1, 2>>, <<3>>), Node("prim::Return", <<3>>, <<>>)>>,
        Const1(2, ITensor(Tensor(Sizes3, "Half", 7, "const"))))

\* the subgraphs a Compiled Unit is constructed for when the translator is
\* looked at (SpecTranslate), and those whose unit is invoked repeatedly
\* (Spec)
RunGraphs == <<GChain, GAdd, GUnsupported, GTensorConst, GNoInputs>>
Graphs ==
  <<GChain, GAdd, GSquare, GLate, GSplit, GUnsupported, GIntConst, GBigConst,
    GTensorConst, GPromoteSkip, GConstOp, GNoInputs, GIdentity, GScalars, GString,
    GHalfConst>>

\* the operation kinds the operator-translation table has a handler for
SupportedOps ==
  {"aten::relu", "aten::add", "aten::mul", "aten::chunk", "aten::addmm",
   "aten::sum"}

\* getOperator(node, relay_inputs) of operators.h: a call expression for a
\* supported kind, an exception for any other
getOperator(g, n, relay_inputs) ==
  IF g.nodes[n].kind \in SupportedOps
    THEN Ok(MkExpr("call", n, relay_inputs, <<>>, NoType))
    ELSE Throw("UnsupportedOperatorError")

\* -------------------------------------------------------- graph translator

\* tvm::relay::Function: FunctionNode::make(input_vars, output, Type(), {})
Function(params, body) == [params |-> params, body |-> body]
NoFunction == Function(<<>>, NoExpr)

\* The locals of convertToRelay(subgraph, ctx, input_values).  input_values
\* is the caller's vector (run passes &cache_[spec].input_values, so the
\* cache entry holds the same sequence).  vtype is the type each Value of
\* the graph carries (a Value is a complete tensor iff it has one), ops the
\* nodes getOperator was called for, in call order, err the exception
\* thrown, "" while there is none.
NoTypes == [v \in {} |-> NoType]
NoExprs == [v \in {} |-> NoExpr]

TrInit(vtype) ==
  [value_map |-> NoExprs, input_vars |-> <<>>, input_values |-> <<>>,
   frontier |-> <<>>, new_frontier |-> <<>>, fi |-> 1, ops |-> <<>>,
   vtype |-> vtype, err |-> "", func |-> NoFunction]

Fail(T, err) == [T EXCEPT !.err = err]

\* value->inferTypeFrom(tensor)
InferTypeFrom(vtype, v, tensor) ==
  Put(vtype, v, [sizes |-> tensor.sizes, dtype |-> tensor.dtype])

\* static_cast<int32_t>(size) of every size
RECURSIVE NarrowSizes(_)
NarrowSizes(sizes) ==
  IF sizes = <<>> THEN <<>>
  ELSE <<NarrowToInt32(Head(sizes))>> \o NarrowSizes(Tail(sizes))

\* lines 40-54: the Var of a Value whose type is T.vtype[val], if it has one
MakeVar(T, val) ==
  IF val \in DOMAIN T.vtype
    THEN IF scalarTypeToTVMType(T.vtype[val].dtype).ok
           THEN [T |-> T,
                 r |-> Ok(VarNode(val, NarrowSizes(T.vtype[val].sizes),
                                  scalarTypeToTVMType(T.vtype[val].dtype).dt))]
           ELSE [T |-> T, r |-> Throw(scalarTypeToTVMType(T.vtype[val].dtype).err)]
    ELSE [T |-> T, r |-> Throw("InternalAssert")]

\* convertToRelay(Value*, TVMContext): the translator's locals after the
\* call (the Value's type may have been inferred) and the Var or exception
convertValue(g, T, val) ==
  IF ~HasIValue(g, val) THEN MakeVar(T, val)
  ELSE IF g.consts[val].kind # "Tensor" THEN [T |-> T, r |-> Throw("InternalAssert")]
  ELSE MakeVar([T EXCEPT !.vtype = InferTypeFrom(@, val, g.consts[val].ten)], val)

\* lines 126-130: record the Var c.r.e of a declared input
RecordInput(input, c) ==
  IF ~c.r.ok THEN Fail(c.T, c.r.err)
  ELSE [c.T EXCEPT !.input_vars = Append(@, c.r.e),
                   !.input_values = Append(@, input),
                   !.value_map = Put(@, input, c.r.e)]

\* lines 123-131, the declared inputs from the k-th on
RECURSIVE InputsLoop(_, _, _)
InputsLoop(g, T, k) ==
  IF k > Len(g.inputs) \/ T.err # "" THEN T
  ELSE IF g.inputs[k] \notin DOMAIN T.vtype THEN Fail(T, "InternalAssert")
  ELSE InputsLoop(g, RecordInput(g.inputs[k], convertValue(g, T, g.inputs[k])), k + 1)

\* the result of the loop over a user's inputs: skip is skip_user; an
\* exception ends the loop with T.err set
Resolved(T, skip, relay_inputs) ==
  [T |-> T, skip |-> skip, relay_inputs |-> relay_inputs]

\* lines 154-156: record the Var c.r.e of a promoted tensor constant
RecordPromoted(input, c) ==
  IF ~c.r.ok THEN Fail(c.T, c.r.err)
  ELSE [c.T EXCEPT !.input_vars = Append(@, c.r.e),
                   !.value_map = Put(@, input, c.r.e)]

\* line 158: record the expression c of a scalar or list constant
RecordConstant(T, input, c) ==
  IF ~c.ok THEN Fail(T, c.err) ELSE [T EXCEPT !.value_map = Put(@, input, c.e)]

\* lines 143-161: an input that is not in value_map is a constant (a tensor
\* constant becomes a runtime input and a Var) or makes the user skipped
ResolveInput(g, T, input) ==
  IF input \in DOMAIN T.value_map THEN T
  ELSE IF ~HasIValue(g, input) THEN T
  ELSE IF g.consts[input].kind = "Tensor"
    THEN RecordPromoted(input,
           convertValue(g, [T EXCEPT !.input_values = Append(@, input)], input))
  ELSE RecordConstant(T, input, convertConstant(g.consts[input]))

\* lines 142-163: the inputs of the user from the k-th on; T is the state
\* after input k - 1 was resolved
RECURSIVE ResolveInputs(_, _, _, _, _), ResolveFrom(_, _, _, _, _)
ResolveInputs(g, T, ins, k, relay_inputs) ==
  IF k > Len(ins) THEN Resolved(T, FALSE, relay_inputs)
  ELSE ResolveFrom(g, ResolveInput(g, T, ins[k]), ins, k, relay_inputs)

\* line 162 for input k, whose resolution left T, then the inputs after it
ResolveFrom(g, T, ins, k, relay_inputs) ==
  IF T.err # "" THEN Resolved(T, FALSE, relay_inputs)
  ELSE IF ins[k] \notin DOMAIN T.value_map THEN Resolved(T, TRUE, relay_inputs)
  ELSE ResolveInputs(g, T, ins, k + 1, Append(relay_inputs, T.value_map[ins[k]]))

\* lines 178-185: bind every output of a multi-output node to a projection
RECURSIVE BindOutputs(_, _, _, _)
BindOutputs(T, outs, tuple, index) ==
  IF index >= Len(outs) THEN T
  ELSE BindOutputs(
         [T EXCEPT !.value_map = Put(@, outs[index + 1], TupleGetItem(tuple, index)),
                   !.new_frontier = Append(@, outs[index + 1])],
         outs, tuple, index + 1)

\* lines 172-186: bind the outputs of the user to what getOperator returned
BindOperator(T, outs, op) ==
  IF ~op.ok THEN Fail(T, op.err)
  ELSE IF Len(outs) = 1
    THEN [T EXCEPT !.value_map = Put(@, outs[1], op.e),
                   !.new_frontier = Append(@, outs[1])]
  ELSE BindOutputs(T, outs, op.e, 0)

\* lines 164-186: after the user's inputs were looked at
TranslateUser(g, n, res) ==
  IF res.T.err # "" \/ res.skip \/ Len(g.nodes[n].outputs) < 1 THEN res.T
  ELSE BindOperator([res.T EXCEPT !.ops = Append(@, n)], g.nodes[n].outputs,
                    getOperator(g, n, res.relay_inputs))

\* lines 140-186: the body of the loop over the uses of a frontier value
VisitUse(g, T, use) ==
  TranslateUser(g, use.user, ResolveInputs(g, T, g.nodes[use.user].inputs, 1, <<>>))

\* lines 138-187: the uses of one frontier value, from the k-th on
RECURSIVE VisitUses(_, _, _, _)
VisitUses(g, T, value, k) ==
  IF k > Len(Uses(g, value)) \/ T.err # "" THEN T
  ELSE VisitUses(g, VisitUse(g, T, Uses(g, value)[k]), value, k + 1)

\* a loop whose line 189 is missing: after the last value of a pass the
\* same frontier is walked again
NextValue_NoSwap(T) ==
  IF T.err # "" THEN T
  ELSE IF T.fi < Len(T.frontier) THEN [T EXCEPT !.fi = @ + 1]
  ELSE [T EXCEPT !.new_frontier = <<>>, !.fi = 1]

\* lines 137 and 189: on to the next frontier value, or to the next pass
\* when this was the last one
NextValue(T) ==
  IF T.err # "" THEN T
  ELSE IF T.fi < Len(T.frontier) THEN [T EXCEPT !.fi = @ + 1]
  ELSE [T EXCEPT !.frontier = T.new_frontier, !.new_frontier = <<>>, !.fi = 1]

\* tvm::relay::FreeVars(e): the Vars the expression refers to
RECURSIVE FreeVars(_), FreeVarsOfAll(_)
FreeVarsOfAll(es) == UNION {FreeVars(es[i]) : i \in 1 .. Len(es)}
FreeVars(e) == IF e.tag = "var" THEN {e} ELSE FreeVarsOfAll(e.args)

\* an output loop that leaves out the outputs it finds no expression for
RECURSIVE OutputFields_SkipMissing(_, _, _)
OutputFields_SkipMissing(T, outs, k) ==
  IF k > Len(outs) THEN [ok |-> TRUE, fields |-> <<>>]
  ELSE IF outs[k] \notin DOMAIN T.value_map
    THEN OutputFields_SkipMissing(T, outs, k + 1)
  ELSE [ok |-> TRUE,
        fields |-> <<T.value_map[outs[k]]>>
                   \o OutputFields_SkipMissing(T, outs, k + 1).fields]

\* lines 195-198: the fields of the output tuple, from the k-th output on
RECURSIVE OutputFields(_, _, _)
OutputFields(T, outs, k) ==
  IF k > Len(outs) THEN [ok |-> TRUE, fields |-> <<>>]
  ELSE IF outs[k] \notin DOMAIN T.value_map THEN [ok |-> FALSE, fields |-> <<>>]
  ELSE LET rest == OutputFields(T, outs, k + 1) IN
       [ok |-> rest.ok, fields |-> <<T.value_map[outs[k]]>> \o rest.fields]

\* lines 199-212: the free-variable check and the Function
MakeFunction(T, output) ==
  IF ~(Cardinality(FreeVars(output)) <= Len(T.input_vars))
    THEN Fail(T, "InternalConsistencyError")
    ELSE [T EXCEPT !.func = Function(T.input_vars, output)]

\* lines 192-212: the output tuple, the free-variable check, the Function
Finish(g, T) ==
  IF ~OutputFields(T, Outputs(g), 1).ok THEN Fail(T, "InternalAssert")
  ELSE MakeFunction(T, TupleNode(OutputFields(T, Outputs(g), 1).fields))

\* a frontier that starts with the constants of the graph as well
SeedFrontier_WithConstants(g, T) ==
  IF T.err # "" THEN T
  ELSE [T EXCEPT !.frontier =
          g.inputs \o (CHOOSE q \in [1 .. Cardinality(DOMAIN g.consts) -> DOMAIN g.consts] :
                         Range(q) = DOMAIN g.consts)]

\* line 133
SeedFrontier(g, T) == IF T.err # "" THEN T ELSE [T EXCEPT !.frontier = g.inputs]

\* lines 135-190: the frontier loop from the state T on
RECURSIVE FrontierLoop(_, _)
FrontierLoop(g, T) ==
  IF T.err # "" \/ Len(T.frontier) = 0 THEN T
  ELSE FrontierLoop(g, NextValue(VisitUses(g, T, T.frontier[T.fi], 1)))

\* lines 192-212 unless an exception was thrown before
FinishUnlessThrown(g, T) == IF T.err # "" THEN T ELSE Finish(g, T)

\* convertToRelay(subgraph, ctx, input_values) as a whole, for a graph
\* whose Values carry the types vtype: the locals at its return or throw
convertGraph(g, vtype) ==
  FinishUnlessThrown(g,
    FrontierLoop(g, SeedFrontier(g, InputsLoop(g, TrInit(vtype), 1))))

\* ------------------------------------------------------ execution engine

kAlignment == 64

\* a signature that also looks at the tensors' contents
CompleteArgumentSpec_WithValues(inputs) ==
  [i \in 1 .. Len(inputs) |->
     [defined |-> inputs[i].ten.defined, device |-> inputs[i].ten.device,
      dtype |-> inputs[i].ten.dtype, sizes |-> inputs[i].ten.sizes,
      strides |-> inputs[i].ten.strides, data |-> inputs[i].ten.data]]

\* CompleteArgumentSpec{false, inputs}: per input tensor whether it is
\* defined, its device, its element type, its sizes and its strides (with
\* with_grad false, not whether it requires a gradient), never its content
CompleteArgumentSpec(inputs) ==
  [i \in 1 .. Len(inputs) |->
     [defined |-> inputs[i].ten.defined, device |-> inputs[i].ten.device,
      dtype |-> inputs[i].ten.dtype, sizes |-> inputs[i].ten.sizes,
      strides |-> inputs[i].ten.strides]]

\* a PackedFunc is the handle of the runtime module it belongs to; 0 is the
\* default-constructed PackedFunc, which has no body
NullFunc == 0

\* a value-initialised cache entry, as cache_[spec] creates it
NewEntry ==
  [input_values |-> <<>>, set_input |-> NullFunc, set_input_zero_copy |-> NullFunc,
   kernel |-> NullFunc, get_output |-> NullFunc]

\* last(stack, n)
Last(st, n) == SubSeq(st, Len(st) - n + 1, Len(st))

\* a drop that clears the whole stack
Drop_All(st, n) == <<>>

\* drop(stack, n)
Drop(st, n) == SubSeq(st, 1, Len(st) - n)

\* InterpreterState(Code(subgraph_)).run(stack): the interpreter pops the
\* declared inputs and pushes one tensor per declared output
InterpreterOutputs(g) ==
  [k \in 1 .. Len(Outputs(g)) |-> ITensor(Tensor(<<>>, "Float", k - 1, "interpreter"))]
InterpreterRun(g, st) == Drop(st, Len(g.inputs)) \o InterpreterOutputs(g)

\* the tensor get_output(i) of a graph runtime returns
RuntimeOutput(i) == ITensor(Tensor(<<>>, "Float", i, "tvm"))

\* one call made to an external collaborator: a is the index passed, b the
\* buffer address of a bind, v the Value bound
Event(op, a, b, v) == [op |-> op, a |-> a, b |-> b, v |-> v]

NoValues == [v \in {} |-> INone]

LocInit ==
  [spec |-> <<>>, num_inputs |-> 0, value_to_ivalue |-> NoValues, i |-> 0,
   entry_stack |-> <<>>, hit |-> FALSE, result |-> "none", err |-> ""]

\* the tensors of a sequence of inputs without their contents
Layouts(inputs) ==
  [i \in 1 .. Len(inputs) |-> [inputs[i].ten EXCEPT !.data = 0]]

\* events: the calls of the current invocation, in order; translated and
\* built: the input tensors (without their contents) of the invocations
\* that called convertToRelay and build_f, in order; calls: the number of
\* invocations so far

HistInit == [events |-> <<>>, translated |-> <<>>, built |-> <<>>, calls |-> 0]

\* the stacks a caller invokes run with: anything below, then the inputs
TensorProtos ==
  {Tensor(Sizes2x2, "Float", 0, "caller"), Tensor(Sizes3, "Float", 0, "caller"),
   Tensor(Sizes2x2, "Half", 0, "caller"),
   Transposed(Tensor(Sizes2x2, "Float", 0, "caller"))}
TensorData == {0, 1}
Belows == {<<>>, <<IInt(I64(5)), IBool(TRUE)>>}
InputChoices(g) ==
  {[i \in 1 .. Len(g.inputs) |-> ITensor([p EXCEPT !.data = d])] :
     p \in TensorProtos, d \in TensorData}

\* buffer addresses dl_tensor.data may have
Addrs == {32, 64}

\* what get_num_outputs of a freshly built runtime may report
NumOutputsChoices(g) ==
  {n \in {Len(Outputs(g)) - 1, Len(Outputs(g)), Len(Outputs(g)) + 1} : n >= 0}

PureInit ==
  [fn |-> "none", ty |-> "Undefined", iv |-> INone, res |-> NoResult,
   output |-> NoExpr]

\* the state after TVMCompiler's constructor, for one of the given subgraphs
InitWith(graphs) ==
  /\ pure = PureInit
  /\ \E i \in 1 .. Len(graphs) : subgraph_ = graphs[i]
  /\ strict_ \in BOOLEAN
  /\ cache_ = [k \in {} |-> NewEntry]
  /\ run_mods = <<>>
  /\ stack = <<>>
  /\ pc = "idle"
  /\ loc = LocInit
  /\ tr = TrInit(NoTypes)
  /\ hist = HistInit

Init == InitWith(RunGraphs)

\* an exception leaves run
Raise(l, err) == [l EXCEPT !.result = "error", !.err = err]

Log(h, e) == [h EXCEPT !.events = Append(@, e)]

\* lines 252-254: every declared input's type from the tensor bound to it
RECURSIVE InferInputs(_, _, _, _)
InferInputs(g, vtype, inputs, k) ==
  IF k > Len(inputs) THEN vtype
  ELSE InferInputs(g, InferTypeFrom(vtype, g.inputs[k], inputs[k].ten), inputs, k + 1)

AfterBind(entry) == IF Len(entry.input_values) = 0 THEN "kernel" ELSE "bind"

\* lines 239-260: bind the inputs, compute the signature, look it up; on a
\* miss infer the types and create the entry whose input_values the
\* translator is handed
RunEnterUpTo(max_calls) ==
  /\ pc = "idle"
  /\ hist.calls < max_calls
  /\ \E below \in Belows, ins \in InputChoices(subgraph_) :
       LET st == below \o ins
           num_inputs == Len(subgraph_.inputs)
           inputs == Last(st, num_inputs)
           spec == CompleteArgumentSpec(inputs)
           v2i == [v \in Range(subgraph_.inputs) |->
                     inputs[CHOOSE i \in 1 .. num_inputs :
                              /\ subgraph_.inputs[i] = v
                              /\ \A j \in i + 1 .. num_inputs : subgraph_.inputs[j] # v]]
           hit == spec \in DOMAIN cache_
           l == [LocInit EXCEPT !.spec = spec, !.num_inputs = num_inputs,
                                !.value_to_ivalue = v2i, !.entry_stack = st,
                                !.hit = hit]
           h == [hist EXCEPT !.events = <<>>, !.calls = @ + 1]
       IN  /\ stack' = st
           /\ loc' = l
           /\ IF hit
                THEN /\ pc' = AfterBind(cache_[spec])
                     /\ hist' = h
                     /\ UNCHANGED <<cache_, tr>>
                ELSE /\ pc' = "inputs"
                     /\ cache_' = Put(cache_, spec, NewEntry)
                     /\ tr' = TrInit(InferInputs(subgraph_, tr.vtype, inputs, 1))
                     /\ hist' = Log([h EXCEPT !.translated = Append(@, Layouts(inputs))],
                                     Event("convertToRelay", 0, 0, 0))
  /\ UNCHANGED <<pure, subgraph_, strict_, run_mods>>

\* the translator's locals T after a step, written back; input_values is
\* the cache entry's vector
TrStep(T, next) ==
  /\ tr' = T
  /\ cache_' = [cache_ EXCEPT ![loc.spec].input_values = T.input_values]
  /\ pc' = IF T.err # "" THEN "catch" ELSE next
  /\ UNCHANGED <<pure, subgraph_, strict_, run_mods, stack, loc, hist>>

\* line 135: the loop runs while the frontier is not empty
TrLoop(T) == TrStep(T, IF Len(T.frontier) = 0 THEN "finish" ELSE "frontier")

\* lines 120-133: translate the declared inputs and seed the frontier
TrInputs ==
  /\ pc = "inputs"
  /\ TrLoop(SeedFrontier(subgraph_, InputsLoop(subgraph_, tr, 1)))

\* lines 135-190: every use of the next frontier value; after the last
\* value of a pass the new frontier becomes the frontier
TrValue ==
  /\ pc = "frontier"
  /\ TrLoop(NextValue(VisitUses(subgraph_, tr, tr.frontier[tr.fi], 1)))

\* lines 192-212: assemble the outputs and return the Function
TrFinish ==
  /\ pc = "finish"
  /\ TrStep(Finish(subgraph_, tr), "build")

\* a handler that ignores strict_ and always falls back
RunCatch_NoStrict ==
  /\ pc = "catch"
  /\ pc' = "idle"
  /\ stack' = InterpreterRun(subgraph_, stack)
  /\ loc' = [loc EXCEPT !.result = "FALLBACK"]
  /\ hist' = Log(hist, Event("interpreter", 0, 0, 0))
  /\ UNCHANGED <<pure, subgraph_, strict_, cache_, run_mods, tr>>

\* a handler whose fallback branch lost its return and goes on to build
RunCatch_NoReturn ==
  /\ pc = "catch"
  /\ IF strict_
       THEN /\ loc' = Raise(loc, "TranslationError")
            /\ pc' = "idle"
            /\ UNCHANGED <<stack, hist>>
       ELSE /\ stack' = InterpreterRun(subgraph_, stack)
            /\ loc' = [loc EXCEPT !.result = "FALLBACK"]
            /\ pc' = "build"
            /\ hist' = Log(hist, Event("interpreter", 0, 0, 0))
  /\ UNCHANGED <<pure, subgraph_, strict_, cache_, run_mods, tr>>

\* lines 261-271: the handler of the exceptions of convertToRelay
RunCatch ==
  /\ pc = "catch"
  /\ pc' = "idle"
  /\ IF strict_
       THEN /\ loc' = Raise(loc, "TranslationError")
            /\ UNCHANGED <<stack, hist>>
       ELSE /\ stack' = InterpreterRun(subgraph_, stack)
            /\ loc' = [loc EXCEPT !.result = "FALLBACK"]
            /\ hist' = Log(hist, Event("interpreter", 0, 0, 0))
  /\ UNCHANGED <<pure, subgraph_, strict_, cache_, run_mods, tr>>

\* lines 272-293: build, create the graph runtime, store its functions in
\* the entry, check its output count.  n < 0 stands for build_f throwing.
RunBuild ==
  /\ pc = "build"
  /\ \E n \in NumOutputsChoices(subgraph_) \cup {-1} :
       LET h == Log([hist EXCEPT !.built =
                           Append(@, Layouts(Last(loc.entry_stack, loc.num_inputs)))],
                    Event("build", 0, 0, 0))
           mod == Len(run_mods) + 1
       IN  /\ hist' = h
           /\ IF n < 0
                THEN /\ loc' = Raise(loc, "BuildError")
                     /\ pc' = "idle"
                     /\ UNCHANGED <<cache_, run_mods>>
                ELSE /\ run_mods' = Append(run_mods, [num_outputs |-> n])
                     /\ cache_' = [cache_ EXCEPT ![loc.spec].set_input = mod,
                                                 ![loc.spec].set_input_zero_copy = mod,
                                                 ![loc.spec].kernel = mod,
                                                 ![loc.spec].get_output = mod]
                     /\ IF Len(Outputs(subgraph_)) = n
                          THEN /\ pc' = AfterBind(cache_[loc.spec])
                               /\ loc' = loc
                          ELSE /\ pc' = "idle"
                               /\ loc' = Raise(loc, "OutputCountMismatchError")
  /\ UNCHANGED <<pure, subgraph_, strict_, stack, tr>>

\* lines 295-311, one iteration: resolve the tensor of runtime input i and
\* bind it, zero-copy when its address is aligned
RunBind ==
  /\ pc = "bind"
  /\ \E addr \in Addrs :
       LET entry == cache_[loc.spec]
           value == entry.input_values[loc.i + 1]
           known == value \in DOMAIN loc.value_to_ivalue
           v2i == IF known \/ ~HasIValue(subgraph_, value) THEN loc.value_to_ivalue
                  ELSE Put(loc.value_to_ivalue, value, subgraph_.consts[value])
           zero_copy == addr % kAlignment = 0
           f == IF zero_copy THEN entry.set_input_zero_copy ELSE entry.set_input
           l == [loc EXCEPT !.value_to_ivalue = v2i]
       IN  IF ~known /\ ~HasIValue(subgraph_, value)
             THEN /\ loc' = Raise(l, "InternalAssert")
                  /\ pc' = "idle"
                  /\ hist' = hist
           ELSE IF v2i[value].kind # "Tensor"
             THEN /\ loc' = Raise(l, "NotATensor")
                  /\ pc' = "idle"
                  /\ hist' = hist
           ELSE IF f = NullFunc
             THEN /\ loc' = Raise(l, "bad_function_call")
                  /\ pc' = "idle"
                  /\ hist' = hist
           ELSE /\ loc' = [l EXCEPT !.i = @ + 1]
                /\ pc' = IF loc.i + 1 < Len(entry.input_values) THEN "bind" ELSE "kernel"
                /\ hist' = Log(hist, Event(IF zero_copy THEN "set_input_zero_copy"
                                           ELSE "set_input", loc.i, addr, value))
  /\ UNCHANGED <<pure, subgraph_, strict_, cache_, run_mods, stack, tr>>

\* an engine that removes the inputs from the stack before it executes
RunKernel_DropFirst ==
  /\ pc = "kernel"
  /\ \E ok \in BOOLEAN :
       IF cache_[loc.spec].kernel = NullFunc
         THEN /\ loc' = Raise(loc, "bad_function_call")
              /\ pc' = "idle"
              /\ hist' = hist
         ELSE /\ hist' = Log(hist, Event("kernel", 0, 0, 0))
              /\ loc' = IF ok THEN loc ELSE Raise(loc, "ExecuteError")
              /\ pc' = IF ok THEN "drop" ELSE "idle"
  /\ stack' = Drop(stack, loc.num_inputs)
  /\ UNCHANGED <<pure, subgraph_, strict_, cache_, run_mods, tr>>

\* line 313: execute; the runtime may fail
RunKernel ==
  /\ pc = "kernel"
  /\ \E ok \in BOOLEAN :
       IF cache_[loc.spec].kernel = NullFunc
         THEN /\ loc' = Raise(loc, "bad_function_call")
              /\ pc' = "idle"
              /\ hist' = hist
         ELSE /\ hist' = Log(hist, Event("kernel", 0, 0, 0))
              /\ loc' = IF ok THEN loc ELSE Raise(loc, "ExecuteError")
              /\ pc' = IF ok THEN "drop" ELSE "idle"
  /\ UNCHANGED <<pure, subgraph_, strict_, cache_, run_mods, stack, tr>>

\* line 316: remove the inputs from the stack
RunDrop ==
  /\ pc = "drop"
  /\ stack' = Drop(stack, loc.num_inputs)
  /\ loc' = [loc EXCEPT !.i = 0,
                        !.result = IF Len(Outputs(subgraph_)) = 0 THEN "RUN" ELSE @]
  /\ pc' = IF Len(Outputs(subgraph_)) = 0 THEN "idle" ELSE "output"
  /\ UNCHANGED <<pure, subgraph_, strict_, cache_, run_mods, tr, hist>>

\* lines 318-325, one iteration: retrieve output i and push it; the graph
\* runtime rejects an index it has no output for
RunOutput ==
  /\ pc = "output"
  /\ LET f == cache_[loc.spec].get_output
         last == loc.i + 1 = Len(Outputs(subgraph_))
     IN  IF f = NullFunc
           THEN /\ loc' = Raise(loc, "bad_function_call")
                /\ pc' = "idle"
                /\ UNCHANGED <<stack, hist>>
         ELSE IF loc.i >= run_mods[f].num_outputs
           THEN /\ loc' = Raise(loc, "OutputIndexError")
                /\ pc' = "idle"
                /\ hist' = Log(hist, Event("get_output", loc.i, 0, 0))
                /\ stack' = stack
         ELSE /\ stack' = Append(stack, RuntimeOutput(loc.i))
              /\ hist' = Log(hist, Event("get_output", loc.i, 0, 0))
              /\ loc' = [loc EXCEPT !.i = @ + 1, !.result = IF last THEN "RUN" ELSE @]
              /\ pc' = IF last THEN "idle" ELSE "output"
  /\ UNCHANGED <<pure, subgraph_, strict_, cache_, run_mods, tr>>

RunEnter == RunEnterUpTo(MaxCalls)

Next ==
  \/ RunEnter
  \/ TrInputs
  \/ TrValue
  \/ TrFinish
  \/ RunCatch
  \/ RunBuild
  \/ RunBind
  \/ RunKernel
  \/ RunDrop
  \/ RunOutput

Spec == Init /\ [][Next]_vars

\* ------------------------------- one invocation of run, for every subgraph

TranslateInit == InitWith(Graphs)

RunEnterOnce == RunEnterUpTo(1)

TranslateNext ==
  \/ RunEnterOnce
  \/ TrInputs
  \/ TrValue
  \/ TrFinish
  \/ RunCatch
  \/ RunBuild
  \/ RunBind
  \/ RunKernel
  \/ RunDrop
  \/ RunOutput

SpecTranslate == TranslateInit /\ [][TranslateNext]_vars

\* --------------------------------------------- the pure functions alone

IntSamples ==
  {I64(0), I64(42), <<65535, 65535, 65535, 65535>>, Int32Max, Int32Lowest,
   <<0, 0, 32768, 0>>, <<65535, 65535, 32767, 65535>>, Two40, <<0, 1, 0, 42>>,
   <<32767, 65535, 65535, 65535>>, <<32768, 0, 0, 0>>}

DoubleSamples ==
  {<<0, 3, -1>>, <<0, -3, -1>>, <<0, 0, 0>>, FloatMax, FloatLowest,
   <<0, 1, 128>>, <<0, -1, 128>>, <<0, 1, 1023>>, <<0, 3, -151>>, <<0, 1, -1074>>,
   <<1, 0, 0>>, <<2, 0, 0>>, <<3, 0, 0>>}

ConstInputs ==
  {IInt(l) : l \in IntSamples} \cup {IDouble(d) : d \in DoubleSamples}
  \cup {IIntList(s) : s \in SeqsUpTo(IntSamples, MaxListLen)}
  \cup {IBool(TRUE), IBool(FALSE), INone, IString, ITensor(Weight)}

\* Vars as convertToRelay(Value*) makes them, and call expressions as an
\* operator handler returns them
VarOf(v) == VarNode(v, NarrowSizes(Sizes2x2), DType("float", 32))
CallOf(n, args) == MkExpr("call", n, args, <<>>, NoType)

\* what lines 202-212 may be handed: the Vars collected as input_vars, and
\* an output tuple over Vars 1 to 3, so that some tuples refer to a Var that
\* was never collected (the translator defect the check is there for)
CheckInputVars == {<<>>, <<VarOf(1)>>, <<VarOf(1), VarOf(2)>>}
CheckOutputs ==
  {TupleNode(<<e>>) :
     e \in {VarOf(1), VarOf(3), CallOf(1, <<VarOf(1)>>), CallOf(1, <<VarOf(3)>>),
            CallOf(1, <<VarOf(1), VarOf(2)>>), CallOf(1, <<VarOf(1), VarOf(3)>>),
            CallOf(1, <<VarOf(2), VarOf(3)>>)}}
  \cup {TupleNode(<<CallOf(1, <<VarOf(1)>>), CallOf(2, <<VarOf(2), VarOf(3)>>)>>)}

PureSpecInit ==
  /\ \/ /\ pure \in [fn : {"none"}, ty : ScalarTypes, iv : ConstInputs,
                      res : {NoResult}, output : {NoExpr}]
        /\ tr = TrInit(NoTypes)
     \/ /\ pure \in [fn : {"none"}, ty : {"Undefined"}, iv : {INone},
                      res : {NoResult}, output : CheckOutputs]
        /\ \E input_vars \in CheckInputVars :
             tr = [TrInit(NoTypes) EXCEPT !.input_vars = input_vars]
  /\ subgraph_ = GIdentity
  /\ strict_ = FALSE
  /\ cache_ = [k \in {} |-> NewEntry]
  /\ run_mods = <<>>
  /\ stack = <<>>
  /\ pc = "idle"
  /\ loc = LocInit
  /\ hist = HistInit

ApplyTypeMapper ==
  /\ pure.fn = "none"
  /\ pure' = [pure EXCEPT !.fn = "scalarTypeToTVMType",
                          !.res = scalarTypeToTVMType(pure.ty)]
  /\ UNCHANGED <<subgraph_, strict_, cache_, run_mods, stack, pc, loc, tr, hist>>

ApplyConstant ==
  /\ pure.fn = "none"
  /\ pure' = [pure EXCEPT !.fn = "convertToRelay", !.res = convertConstant(pure.iv)]
  /\ UNCHANGED <<subgraph_, strict_, cache_, run_mods, stack, pc, loc, tr, hist>>

\* lines 202-212 applied to the output tuple pure.output and to the
\* input_vars of tr
ApplyFreeVarCheck ==
  /\ pure.fn = "none"
  /\ pure' = [pure EXCEPT !.fn = "FreeVars"]
  /\ tr' = MakeFunction(tr, pure.output)
  /\ UNCHANGED <<subgraph_, strict_, cache_, run_mods, stack, pc, loc, hist>>

PureNext == ApplyTypeMapper \/ ApplyConstant \/ ApplyFreeVarCheck

SpecPure == PureSpecInit /\ [][PureNext]_vars

\* ------------------------------------------------------------ properties

\* an invocation of run has ended
Returned == pc = "idle" /\ hist.calls > 0

\* the inputs the current invocation was called with
EntryInputs == Last(loc.entry_stack, loc.num_inputs)

\* the current invocation called convertToRelay and it threw
TranslationFailedNow == ~loc.hit /\ tr.err # ""

EventOps == {hist.events[i].op : i \in 1 .. Len(hist.events)}
CountOp(op) == Cardinality({i \in 1 .. Len(hist.events) : hist.events[i].op = op})
Before(op1, op2) ==
  \A j \in 1 .. Len(hist.events) :
    hist.events[j].op = op2 => \E i \in 1 .. j - 1 : hist.events[i].op = op1

\* C1 (as claimed): after an invocation of run whose translation failed, the
\* cache has no entry for the invocation's signature.
C1_NoEntryAfterFailedTranslation ==
  (Returned /\ TranslationFailedNow) => loc.spec \notin DOMAIN cache_

\* the shapes and element types of a sequence of input tensors
ShapesAndTypes(ts) ==
  [i \in 1 .. Len(ts) |-> <<ts[i].sizes, ts[i].dtype>>]
NoRepeatedSignature(log) ==
  \A i, j \in 1 .. Len(log) :
    ShapesAndTypes(log[i]) = ShapesAndTypes(log[j]) => i = j
SignatureIn(log, ts) ==
  \E i \in 1 .. Len(log) : ShapesAndTypes(log[i]) = ShapesAndTypes(ts)

\* C2 (as claimed): translation and build are each performed at most once
\* per signature (shapes and element types, whatever the contents), exactly
\* once for a signature that has run, and a step of an invocation leaves the
\* cache entries of the other signatures as they were.
C2_OncePerSignature ==
  [][/\ NoRepeatedSignature(hist'.translated)
     /\ NoRepeatedSignature(hist'.built)
     /\ (pc' = "idle" /\ loc'.result = "RUN") =>
          /\ SignatureIn(hist'.translated, Layouts(Last(loc'.entry_stack, loc'.num_inputs)))
          /\ SignatureIn(hist'.built, Layouts(Last(loc'.entry_stack, loc'.num_inputs)))
     /\ loc'.hit => hist'.translated = hist.translated /\ hist'.built = hist.built
     /\ \A s \in DOMAIN cache_ :
          s # loc'.spec => s \in DOMAIN cache_' /\ cache_'[s] = cache_[s]]_vars

\* what the engine's key tells apart: per input tensor whether it is
\* defined, its device, its element type, its sizes and its strides
ArgumentTypes(ts) ==
  [i \in 1 .. Len(ts) |->
     <<ts[i].defined, ts[i].device, ts[i].dtype, ts[i].sizes, ts[i].strides>>]
NoRepeatedArgumentTypes(log) ==
  \A i, j \in 1 .. Len(log) :
    ArgumentTypes(log[i]) = ArgumentTypes(log[j]) => i = j
ArgumentTypesIn(log, ts) ==
  \E i \in 1 .. Len(log) : ArgumentTypes(log[i]) = ArgumentTypes(ts)

\* C2 (amended): translation and build are each performed at most once
\* per distinct definedness, device, element type, sizes and strides of the
\* inputs (whatever the contents), exactly once for inputs that have run,
\* and a step of an invocation leaves the cache entries of the other keys
\* as they were.
C2_OncePerArgumentSpec ==
  [][/\ NoRepeatedArgumentTypes(hist'.translated)
     /\ NoRepeatedArgumentTypes(hist'.built)
     /\ (pc' = "idle" /\ loc'.result = "RUN") =>
          /\ ArgumentTypesIn(hist'.translated,
                             Layouts(Last(loc'.entry_stack, loc'.num_inputs)))
          /\ ArgumentTypesIn(hist'.built,
                             Layouts(Last(loc'.entry_stack, loc'.num_inputs)))
     /\ loc'.hit => hist'.translated = hist.translated /\ hist'.built = hist.built
     /\ \A s \in DOMAIN cache_ :
          s # loc'.spec => s \in DOMAIN cache_' /\ cache_'[s] = cache_[s]]_vars

\* three invocations have run: a contiguous 2x2 tensor, the same layout
\* again (a hit), and its transposed view, of the same sizes and element
\* type but other strides (a miss): two translations, two builds, two
\* entries
C2_Witness ==
  /\ Returned /\ hist.calls = 3 /\ loc.result = "RUN" /\ ~loc.hit
  /\ Len(hist.translated) = 2 /\ Len(hist.built) = 2
  /\ ShapesAndTypes(hist.translated[1]) = ShapesAndTypes(hist.translated[2])
  /\ hist.translated[1][1].strides # hist.translated[2][1].strides
  /\ Cardinality(DOMAIN cache_) = 2
  /\ \A s \in DOMAIN cache_ :
       /\ cache_[s].kernel # NullFunc
       /\ run_mods[cache_[s].kernel].num_outputs = Len(Outputs(subgraph_))

\* C3 (as claimed): in non-strict mode every invocation of run on inputs for
\* which the subgraph's translation fails returns without an error, with the
\* stack the interpreter left from the entry stack, and calls nothing but the
\* translator and the interpreter.
C3_FallbackOnEveryInvocation ==
  (/\ Returned
   /\ ~strict_
   /\ convertGraph(subgraph_, InferInputs(subgraph_, NoTypes, EntryInputs, 1)).err # "")
  => /\ loc.result = "FALLBACK"
     /\ stack = InterpreterRun(subgraph_, loc.entry_stack)
     /\ EventOps \subseteq {"convertToRelay", "interpreter"}
     /\ CountOp("interpreter") = 1

\* C4: in strict mode an invocation of run whose translation fails raises
\* TranslationError, leaves the stack as it was at entry, and neither runs
\* the interpreter nor builds, binds, executes or retrieves anything.
C4_StrictRaises ==
  (Returned /\ strict_ /\ TranslationFailedNow)
  => /\ loc.result = "error" /\ loc.err = "TranslationError"
     /\ stack = loc.entry_stack
     /\ EventOps \subseteq {"convertToRelay"}

C4_Witness ==
  /\ Returned /\ strict_ /\ TranslationFailedNow
  /\ tr.err = "UnsupportedOperatorError"
  /\ loc.err = "TranslationError"
  /\ Len(stack) = 3

\* the runtime stored for signature s reports another output count than the
\* subgraph declares
Mismatched(s) ==
  /\ s \in DOMAIN cache_
  /\ cache_[s].kernel # NullFunc
  /\ run_mods[cache_[s].kernel].num_outputs # Len(Outputs(subgraph_))

\* C5 (as claimed): no invocation of run executes a runtime whose output
\* count differs from the declared one and returns as if it had succeeded.
C5_MismatchNeverAccepted ==
  ~(Returned /\ loc.result = "RUN" /\ Mismatched(loc.spec))

\* C6: an invocation that ends in RUN from a stack of s values leaves
\* s - n + m values: the bottom s - n unchanged, then output i of the
\* runtime at position s - n + i + 1, for i = 0 .. m - 1.
C6_StackEffect ==
  (Returned /\ loc.result = "RUN")
  => LET s == Len(loc.entry_stack)
         n == Len(subgraph_.inputs)
         m == Len(Outputs(subgraph_))
     IN  /\ Len(stack) = s - n + m
         /\ \A k \in 1 .. s - n : stack[k] = loc.entry_stack[k]
         /\ \A i \in 0 .. m - 1 :
              /\ stack[s - n + i + 1].kind = "Tensor"
              /\ stack[s - n + i + 1].ten.src = "tvm"
              /\ stack[s - n + i + 1].ten.data = i
         /\ \A i \in 0 .. m - 1 : hist.events[Len(hist.events) - m + i + 1] =
                                    Event("get_output", i, 0, 0)

\* two values below one input, two outputs
C6_Witness ==
  /\ Returned /\ loc.result = "RUN"
  /\ Len(loc.entry_stack) = 3 /\ Len(subgraph_.inputs) = 1
  /\ Len(Outputs(subgraph_)) = 2 /\ Len(stack) = 4

\* -2^31 <= l <= 2^31 - 1 for a 64-bit two's complement l: the upper 33 bits
\* are all equal
FitsInt32(l) ==
  \/ l[1] = 0 /\ l[2] = 0 /\ l[3] < 32768
  \/ l[1] = 65535 /\ l[2] = 65535 /\ l[3] >= 32768

\* the 64-bit number an int32 stands for: sign extension
WidenToInt64(w) ==
  IF w[1] >= 32768 THEN <<65535, 65535, w[1], w[2]>> ELSE <<0, 0, w[1], w[2]>>

\* e is the int32 constant of value l
IsInt32Constant(e, l) ==
  /\ e.tag = "const" /\ e.ty.dtype = DType("int", 32) /\ e.ty.sizes = <<>>
  /\ Len(e.val) = 2 /\ WidenToInt64(e.val) = l

\* C7: an integer constant translates to the int32 constant of the same
\* value exactly when it lies in the int32 range and fails with a range
\* error otherwise; a list of integers translates to the tuple of its
\* elements' int32 constants, in order, when all lie in the range, and
\* fails otherwise.
C7_IntegerNarrowing ==
  pure.fn = "convertToRelay" =>
    /\ pure.iv.kind = "Int" =>
         IF FitsInt32(pure.iv.num)
           THEN pure.res.ok /\ IsInt32Constant(pure.res.e, pure.iv.num)
           ELSE ~pure.res.ok /\ pure.res.err = "RangeError" /\ pure.res.e = NoExpr
    /\ pure.iv.kind = "IntList" =>
         IF \A i \in 1 .. Len(pure.iv.list) : FitsInt32(pure.iv.list[i])
           THEN /\ pure.res.ok
                /\ pure.res.e.tag = "tuple"
                /\ Len(pure.res.e.args) = Len(pure.iv.list)
                /\ \A i \in 1 .. Len(pure.iv.list) :
                     IsInt32Constant(pure.res.e.args[i], pure.iv.list[i])
           ELSE ~pure.res.ok /\ pure.res.err = "RangeError" /\ pure.res.e = NoExpr

\* the list <<42, 2^40>> fails as a whole
C7_Witness ==
  /\ pure.fn = "convertToRelay"
  /\ pure.iv = IIntList(<<I64(42), Two40>>)
  /\ ~pure.res.ok

\* the target type the claim gives each supported element type
ExpectedTarget(t) ==
  CASE t = "Float" -> DType("float", 32)
    [] t = "Double" -> DType("float", 64)
    [] t = "Int" -> DType("int", 32)
    [] t = "Long" -> DType("int", 64)
    [] t = "Bool" -> DType("uint", 1)
    [] t \in {"Char", "QInt8"} -> DType("int", 8)
    [] t \in {"Byte", "QUInt8"} -> DType("uint", 8)
    [] t = "QInt32" -> DType("int", 32)
    [] OTHER -> NoDType

\* C8: the type mapper returns a target type exactly for Float, Double, Int,
\* Long, Bool, Char, Byte and the quantized kinds QInt8, QUInt8, QInt32 (the
\* type of the unquantized kind of the same width and signedness), and
\* fails with an unsupported-type error, returning nothing, for any other.
C8_TypeMapper ==
  pure.fn = "scalarTypeToTVMType" =>
    IF pure.ty \in {"Float", "Double", "Int", "Long", "Bool", "Char", "Byte",
                    "QInt8", "QUInt8", "QInt32"}
      THEN pure.res.ok /\ pure.res.dt = ExpectedTarget(pure.ty)
      ELSE ~pure.res.ok /\ pure.res.err = "UnsupportedTypeError"
           /\ pure.res.dt = NoDType

C8_Witness ==
  /\ pure.fn = "scalarTypeToTVMType"
  /\ pure.ty = "QInt32"
  /\ pure.res.ok /\ pure.res.dt = DType("int", 32)

\* C9: a cache hit calls neither the translator, the build nor the
\* interpreter; a miss calls the translator once, the build at most once
\* and only after the translation succeeded, the interpreter at most once
\* and only after it failed in non-strict mode; nothing is called twice; an
\* invocation that returns without an error ended in RUN (outputs
\* retrieved, no interpreter) or in FALLBACK (interpreter, no execute), and
\* in RUN after a hit.
C9_StateMachine ==
  /\ loc.hit => EventOps \cap {"convertToRelay", "build", "interpreter"} = {}
  /\ (hist.calls > 0 /\ ~loc.hit) => CountOp("convertToRelay") = 1
  /\ CountOp("build") <= 1 /\ CountOp("interpreter") <= 1 /\ CountOp("kernel") <= 1
  /\ "build" \in EventOps =>
       ~loc.hit /\ tr.err = "" /\ tr.func # NoFunction /\ Before("convertToRelay", "build")
  /\ "interpreter" \in EventOps =>
       ~loc.hit /\ tr.err # "" /\ ~strict_ /\ Before("convertToRelay", "interpreter")
  /\ Before("kernel", "get_output")
  /\ Returned =>
       /\ loc.result \in {"RUN", "FALLBACK", "error"}
       /\ loc.result = "RUN" =>
            "kernel" \in EventOps /\ "interpreter" \notin EventOps
       /\ loc.result = "FALLBACK" =>
            "interpreter" \in EventOps /\ "kernel" \notin EventOps
            /\ "build" \notin EventOps
       /\ (loc.hit /\ loc.result # "error") => loc.result = "RUN"

\* a cache hit that ended in RUN, and a miss that ended in FALLBACK, are
\* told apart by loc.hit; this one is the hit
C9_Witness ==
  /\ Returned /\ loc.hit /\ loc.result = "RUN"
  /\ EventOps = {"set_input", "set_input_zero_copy", "kernel", "get_output"}

\* C10 (as claimed): during one translation getOperator is invoked at most
\* once for any one operation of the graph.
C10_OncePerOperation ==
  \A i, j \in 1 .. Len(tr.ops) : tr.ops[i] = tr.ops[j] => i = j

\* the current translation pass has ended, with a Function or an exception
TranslationOver ==
  hist.translated # <<>> /\ pc \notin {"inputs", "frontier", "finish"}

\* the operations of a graph: its nodes but the prim::Return
Operations(g) == 1 .. Len(g.nodes) - 1

\* the Values some operation of the graph produces
Produced(g) == UNION {Range(g.nodes[n].outputs) : n \in Operations(g)}

\* the subgraphs C11 speaks of: every operation is supported, every input
\* of every operation is a declared input, a compile-time constant or the
\* output of an operation, and no operation depends on its own output (the
\* producer of every input comes earlier in the node list)
WellFormed(g) ==
  /\ \A n \in Operations(g) : g.nodes[n].kind \in SupportedOps
  /\ \A n \in 1 .. Len(g.nodes) : \A v \in Range(g.nodes[n].inputs) :
       \/ v \in Range(g.inputs)
       \/ HasIValue(g, v)
       \/ \E m \in 1 .. n - 1 : v \in Range(g.nodes[m].outputs)

\* the exceptions of the type mapper and of the constant translator
ValueErrors == {"UnsupportedTypeError", "RangeError", "UnsupportedConstantError"}

OutputsResolved ==
  \A k \in 1 .. Len(Outputs(subgraph_)) : Outputs(subgraph_)[k] \in DOMAIN tr.value_map

\* C11 (as claimed): for a subgraph whose operations are all supported and
\* whose operation inputs are all declared inputs, constants or outputs of
\* other operations, every skipped operation is translated in a later pass,
\* so the translation resolves every declared output and succeeds (types
\* and constants that cannot be translated set aside).
C11_SkippedBecomesReady ==
  (TranslationOver /\ WellFormed(subgraph_) /\ tr.err \notin ValueErrors)
  => (tr.err = "" /\ OutputsResolved)

\* C12: a translation that returned has every declared output in the
\* translation context and returned the Function whose body is the tuple of
\* their expressions in declared order; a translation that ended with a
\* declared output unresolved threw and returned no Function.
C12_OutputsResolvedOrFailure ==
  /\ (TranslationOver /\ tr.err = "")
     => /\ OutputsResolved
        /\ tr.func # NoFunction
        /\ tr.func.body =
             TupleNode([k \in 1 .. Len(Outputs(subgraph_)) |->
                          tr.value_map[Outputs(subgraph_)[k]]])
  /\ (TranslationOver /\ ~OutputsResolved)
     => (tr.err # "" /\ tr.func = NoFunction)

\* the two declared outputs of the chain, the later one first
C12_Witness ==
  /\ subgraph_ = GChain /\ pc = "build" /\ tr.err = ""
  /\ tr.func.body.args = <<tr.value_map[3], tr.value_map[2]>>
  /\ tr.value_map[3] # tr.value_map[2]

\* C13 (as claimed): the free-variable check lets a Function be returned
\* only if every free variable of the body is one of the collected
\* runtime-input placeholders; a body that refers to any other free
\* variable makes the translation fail with InternalConsistencyError,
\* however many placeholders were collected.
C13_FreeVarsSubset ==
  pure.fn = "FreeVars"
  => /\ tr.err = "" => FreeVars(pure.output) \subseteq Range(tr.input_vars)
     /\ ~(FreeVars(pure.output) \subseteq Range(tr.input_vars))
        => (tr.err = "InternalConsistencyError" /\ tr.func = NoFunction)

\* the largest number of a set of naturals, 0 for the empty set
Max(S) == IF S = {} THEN 0 ELSE CHOOSE x \in S : \A y \in S : y <= x

\* the number of operations on the longest path of the graph that starts
\* with a use of the Value v
RECURSIVE Height(_, _)
Height(g, v) ==
  Max({1 + Max({Height(g, g.nodes[n].outputs[o]) :
                  o \in 1 .. Len(g.nodes[n].outputs)}) :
         n \in {m \in Operations(g) : v \in Range(g.nodes[m].inputs)}})

\* the variant of the frontier loop: the height of the highest frontier
\* value, then the number of frontier values the pass has yet to visit
Rank(T) ==
  <<Max({Height(subgraph_, T.frontier[i]) : i \in 1 .. Len(T.frontier)}),
    Len(T.frontier) - T.fi>>

RankLess(a, b) ==
  /\ a[1] >= 0 /\ a[2] >= 0
  /\ a[1] < b[1] \/ (a[1] = b[1] /\ a[2] < b[2])

\* C14: the frontier loop terminates.  Every step that stays in the loop
\* lowers a variant that is a pair of naturals in lexicographic order: a
\* step within a pass leaves one frontier value less to visit, and the
\* step that ends a pass makes a frontier of Values strictly lower in the
\* graph; a loop that is left has an empty frontier or threw.
C14_FrontierLoopTerminates ==
  [][/\ (pc = "frontier" /\ pc' = "frontier") => RankLess(Rank(tr'), Rank(tr))
     /\ (pc = "frontier" /\ pc' # "frontier")
        => (pc' = "catch" \/ (pc' = "finish" /\ tr'.frontier = <<>>))]_vars

\* the loop was left after a pass that skipped the add, one that translated
\* the two-output chunk, and one that translated the add (once per operand)
C14_Witness ==
  /\ subgraph_ = GSplit /\ pc = "finish"
  /\ tr.frontier = <<>> /\ tr.ops = <<1, 2, 2>>

\* C18 (as claimed): at every point of a translation, also one that ends
\* with an exception, input_values and input_vars have the same length and
\* input_vars[i] is the Var of input_values[i], the one value_map holds for
\* it, and a Function returned has input_vars as its parameters;
\* input_values holds the declared inputs in declared order, then tensor
\* constants only, and no Value twice; the assertion of run on a runtime
\* input that is not a popped input never fails.
C18_InputsMatchParams ==
  /\ Len(tr.input_values) = Len(tr.input_vars)
  /\ \A i \in 1 .. Len(tr.input_vars) :
       /\ tr.input_vars[i].tag = "var"
       /\ i <= Len(tr.input_values)
       /\ tr.input_vars[i].id = tr.input_values[i]
       /\ tr.input_values[i] \in DOMAIN tr.value_map
       /\ tr.value_map[tr.input_values[i]] = tr.input_vars[i]
  /\ tr.func # NoFunction => tr.func.params = tr.input_vars
  /\ (hist.translated # <<>> /\ pc # "inputs" /\ tr.err = "")
     => Len(tr.input_values) >= Len(subgraph_.inputs)
  /\ \A i \in 1 .. Len(tr.input_values) :
       /\ i <= Len(subgraph_.inputs) => tr.input_values[i] = subgraph_.inputs[i]
       /\ i > Len(subgraph_.inputs)
          => /\ HasIValue(subgraph_, tr.input_values[i])
             /\ subgraph_.consts[tr.input_values[i]].kind = "Tensor"
       /\ \A j \in 1 .. Len(tr.input_values) :
            tr.input_values[i] = tr.input_values[j] => i = j
  /\ \A s \in DOMAIN cache_ :
       \A i \in 1 .. Len(cache_[s].input_values) :
         \/ cache_[s].input_values[i] \in Range(subgraph_.inputs)
         \/ HasIValue(subgraph_, cache_[s].input_values[i])
  /\ loc.err # "InternalAssert"

\* the Values derived from a declared input: the declared inputs and the
\* outputs of the operations that have a derived input (the k-th node on)
RECURSIVE DerivedFrom(_, _, _)
DerivedFrom(g, k, D) ==
  IF k > Len(g.nodes) THEN D
  ELSE DerivedFrom(g, k + 1,
         IF Range(g.nodes[k].inputs) \cap D # {}
           THEN D \cup Range(g.nodes[k].outputs) ELSE D)

Derived(g) == DerivedFrom(g, 1, Range(g.inputs))

\* the operations with at least one input derived from a declared input
Reachable(g) == {n \in Operations(g) : Range(g.nodes[n].inputs) \cap Derived(g) # {}}

\* the operations whose inputs are all compile-time constants (or that
\* have none)
ConstantOnly(g) ==
  {n \in Operations(g) : \A v \in Range(g.nodes[n].inputs) : HasIValue(g, v)}

\* the Values that depend on an operation that is not reachable
Underived(g) == Produced(g) \ Derived(g)

\* C19: getOperator is only called for operations that have an input
\* derived from a declared input: never for an operation whose inputs are
\* all constants, never in a subgraph without declared inputs; a
\* translation of a subgraph with a declared output that depends on such an
\* operation ends with that output unresolved and throws at the output
\* assertion (unless a type or constant was rejected before).
C19_OnlyReachableTranslated ==
  /\ Range(tr.ops) \subseteq Reachable(subgraph_)
  /\ Range(tr.ops) \cap ConstantOnly(subgraph_) = {}
  /\ subgraph_.inputs = <<>> => tr.ops = <<>>
  /\ (TranslationOver /\ Range(Outputs(subgraph_)) \cap Underived(subgraph_) # {})
     => /\ ~OutputsResolved
        /\ tr.func = NoFunction
        /\ tr.err \in ValueErrors \cup {"InternalAssert"}
        /\ tr.err = "InternalAssert" => tr.frontier = <<>>

\* relu(weight) was never visited, so the add that needs its result was
\* skipped and the output assertion threw
C19_Witness ==
  /\ subgraph_ = GConstOp /\ TranslationOver
  /\ tr.err = "InternalAssert" /\ tr.ops = <<>> /\ tr.frontier = <<>>
  /\ 1 \in DOMAIN tr.value_map /\ 4 \notin DOMAIN tr.value_map

\* the bind calls of the current invocation, in call order
BindEvents ==
  SelectSeq(hist.events, LAMBDA e : e.op \in {"set_input", "set_input_zero_copy"})

\* the current invocation entered the loop of lines 295-311
ReachedBinding ==
  /\ hist.calls > 0
  /\ \/ pc \in {"bind", "kernel", "drop", "output"}
     \/ /\ Returned
        /\ \/ loc.hit
           \/ "build" \in EventOps
              /\ loc.err \notin {"BuildError", "OutputCountMismatchError"}

\* the bind calls made so far are those of the first runtime inputs: call k
\* binds input_values[k] at index k - 1, zero-copy iff the address is a
\* multiple of 64
BoundInOrder ==
  /\ Len(BindEvents) <= Len(cache_[loc.spec].input_values)
  /\ \A k \in 1 .. Len(BindEvents) :
       /\ BindEvents[k].a = k - 1
       /\ BindEvents[k].v = cache_[loc.spec].input_values[k]
       /\ BindEvents[k].op = "set_input_zero_copy" <=> BindEvents[k].b % 64 = 0

\* a runtime input that is not a declared input has the tensor of its
\* constant
ConstantsReevaluated ==
  \A v \in DOMAIN loc.value_to_ivalue \ Range(subgraph_.inputs) :
    HasIValue(subgraph_, v) /\ loc.value_to_ivalue[v] = subgraph_.consts[v]

\* C15 (as claimed): in every invocation that reaches input binding every
\* runtime input of the cache entry is bound exactly once, at the index of
\* its position, zero-copy iff its address is a multiple of 64, and a
\* runtime input that was not popped has the tensor of its constant.
C15_EachInputBoundOnce ==
  ReachedBinding
  => /\ BoundInOrder
     /\ ConstantsReevaluated
     /\ pc # "bind" => Len(BindEvents) = Len(cache_[loc.spec].input_values)

\* C16: an invocation that ended in RUN called execute once, after a bind
\* of every runtime input and before every get_output; until execute has
\* returned the stack is as it was at entry, so an invocation that raised
\* an error before or in execute left the stack as it was at entry.
C16_ExecuteOnceStackUntouched ==
  /\ (Returned /\ loc.result = "RUN")
     => /\ CountOp("kernel") = 1
        /\ Len(BindEvents) = Len(cache_[loc.spec].input_values)
        /\ \A i, j \in 1 .. Len(hist.events) :
             /\ (hist.events[i].op \in {"set_input", "set_input_zero_copy"}
                 /\ hist.events[j].op = "kernel") => i < j
             /\ (hist.events[i].op = "kernel" /\ hist.events[j].op = "get_output")
                => i < j
  /\ (hist.calls > 0 /\ pc \in {"inputs", "frontier", "finish", "catch", "build", "bind", "kernel"})
     => stack = loc.entry_stack
  /\ (Returned /\ loc.result = "error" /\ "get_output" \notin EventOps)
     => stack = loc.entry_stack

\* execute failed after both inputs of the add were bound: the stack is
\* the one run was entered with
C16_Witness ==
  /\ subgraph_ = GAdd /\ Returned /\ loc.err = "ExecuteError"
  /\ Len(BindEvents) = 2 /\ CountOp("kernel") = 1
  /\ Len(stack) = 4 /\ stack = loc.entry_stack

\* the entry was filled by a build that completed: its four functions are
\* those of one runtime, which has as many outputs as the subgraph
\* declares, and its runtime inputs are those of the successful translation
\* of the subgraph for the inputs' types
FullyPopulated(entry, inputs) ==
  /\ entry.kernel # NullFunc
  /\ entry.set_input = entry.kernel
  /\ entry.set_input_zero_copy = entry.kernel
  /\ entry.get_output = entry.kernel
  /\ run_mods[entry.kernel].num_outputs = Len(Outputs(subgraph_))
  /\ convertGraph(subgraph_, InferInputs(subgraph_, NoTypes, inputs, 1)).err = ""
  /\ entry.input_values =
       convertGraph(subgraph_, InferInputs(subgraph_, NoTypes, inputs, 1)).input_values

\* C17 (as claimed): the entry a cache hit finds is fully populated by a
\* completed build, whatever failed in the invocations before.
C17_HitFindsCompleteEntry ==
  (hist.calls > 0 /\ loc.hit) => FullyPopulated(cache_[loc.spec], EntryInputs)

====
